---- MODULE Spec2Model ----
(***************************************************************************)
(* Ledger arithmetic of the expense-sharing backend:                       *)
(*   - utils/splitCalculator.ts : calculateSplits (EQUAL/EXACT/PERCENTAGE) *)
(*   - balance simplification   : calculateNetBalances,                    *)
(*                                  simplifySettlements,                   *)
(*                                  getSimplifiedSettlements               *)
(*   - settlement controller    : confirmSettlement, rejectSettlement      *)
(*                                                                         *)
(* JavaScript numbers are modelled as exact fixed-point decimals: a value  *)
(* v is held as the integer v * Scale, so 0.005 is the smallest step.      *)
(* totalAmount is held in whole currency units (the claims' domain is the  *)
(* positive integers); raw amounts, percentages and shares are fixed-point.*)
(* IEEE-754 rounding error of + and * is not modelled.                     *)
(***************************************************************************)
EXTENDS Integers, Sequences, FiniteSets, TLC

VARIABLES totalAmount, splitType, splits, result, pc,
          balances, netBalances, idx, pcB,
          creditors, debtors, i, j, settlements, pcS,
          settlement, requests,
          expenses, recorded, suggested, cursor, summary, pcL,
          group, calls

vars == <<totalAmount, splitType, splits, result, pc,
          balances, netBalances, idx, pcB,
          creditors, debtors, i, j, settlements, pcS,
          settlement, requests,
          expenses, recorded, suggested, cursor, summary, pcL,
          group, calls>>

splitVars == <<totalAmount, splitType, splits, result, pc>>
balanceVars == <<balances, netBalances, idx, pcB>>
simplifyVars == <<creditors, debtors, i, j, settlements, pcS>>
workflowVars == <<settlement, requests>>
ledgerVars == <<expenses, recorded, suggested, cursor, summary, pcL>>
memberVars == <<group, calls>>

----------------------------------------------------------------------------
(* Bounds of the model *)

MaxParticipants == 3
MaxObligations == 3

----------------------------------------------------------------------------
(* Numbers *)

\* fixed-point steps per unit (1 step = 0.005)
Scale == 200

Units(n) == n * Scale

IsInteger(x) == x % Scale = 0

Abs(x) == IF x < 0 THEN -x ELSE x

\* Math.floor of the exact quotient a / b (b > 0), in whole units
Floor(a, b) == a \div b

\* an optional number: split.amount is `number | undefined`
Undefined == <<>>
Some(v) == <<v>>
Val(a) == a[1]

\* (split.amount || 0)
OrZero(a) == IF a = Undefined THEN 0 ELSE Val(a)

RECURSIVE SumSeq(_)
SumSeq(s) == IF s = <<>> THEN 0 ELSE Head(s) + SumSeq(Tail(s))

\* splits.reduce((acc, split) => acc + (split.amount || 0), 0)
SumAmounts(sp) == SumSeq([n \in 1..Len(sp) |-> OrZero(sp[n].amount)])

\* calculatedSplits.reduce((acc, s) => acc + s.share, 0)
SumShares(cs) == SumSeq([n \in 1..Len(cs) |-> cs[n].share])

----------------------------------------------------------------------------
(* Program constants *)

\* mutant: a slack of 2 units
ExactToleranceTwo == Units(2)

\* EXACT: Math.abs(sum - totalAmount) > 1
ExactTolerance == Units(1)

\* mutant: a slack of 0.1
PercentToleranceTenth == Scale \div 10

\* PERCENTAGE: Math.abs(totalPercentage - 100) > 0.01
PercentTolerance == Scale \div 100

\* PERCENTAGE: split.amount > 100, totalPercentage - 100, (... ) / 100
Hundred == 100

----------------------------------------------------------------------------
(* Outcomes of a call: a returned list or a thrown Error *)

Return(cs) == [kind |-> "return", splits |-> cs, message |-> "", args |-> <<>>]
Throw(msg, a) == [kind |-> "throw", splits |-> <<>>, message |-> msg, args |-> a]

MsgEmpty == "At least one participant is required"
MsgExactAmount == "Each split must have a non-negative amount for EXACT split"
MsgExactSum == "Split amounts (sum) must equal total amount (totalAmount)"
MsgPercentRange == "Each split must have a percentage between 0 and 100"
MsgPercentSum == "Percentages must sum to 100 (got totalPercentage)"
MsgSplitType == "Invalid split type"

----------------------------------------------------------------------------
(* utils/splitCalculator.ts *)

\* mutant: the extra unit also goes to participant number `remainder`
EqualShareOffByOne(baseShare, remainder, index) ==
    Units(baseShare + (IF index <= remainder THEN 1 ELSE 0))

\* const share = baseShare + (index < remainder ? 1 : 0)
EqualShare(baseShare, remainder, index) ==
    Units(baseShare + (IF index < remainder THEN 1 ELSE 0))

\* mutant: the remainder of the division is dropped
EqualRemainderDropped(total, baseShare, numParticipants) ==
    0

\* const remainder = totalAmount - baseShare * numParticipants
EqualRemainder(total, baseShare, numParticipants) ==
    total - baseShare * numParticipants

calculateEqualSplit(total, sp) ==
    LET numParticipants == Len(sp) IN
    IF numParticipants = 0 THEN Throw(MsgEmpty, <<>>)
    ELSE
      LET baseShare == Floor(total, numParticipants)
          remainder == EqualRemainder(total, baseShare, numParticipants)
          share(index) == EqualShare(baseShare, remainder, index)
      IN Return([k \in 1..numParticipants |->
                   [user |-> sp[k].userId,
                    amount |-> share(k - 1),
                    share |-> share(k - 1)]])

\* mutant: a negative amount is let through
ExactAmountInvalidNoSign(split) ==
    split.amount = Undefined

\* split.amount === undefined || split.amount < 0
ExactAmountInvalid(split) ==
    split.amount = Undefined \/ Val(split.amount) < 0

\* mutant: the empty-list check is missing
calculateExactSplitNoEmptyCheck(total, sp) ==
    IF \E k \in 1..Len(sp) : ExactAmountInvalid(sp[k])
      THEN Throw(MsgExactAmount, <<>>)
    ELSE
      LET sum == SumAmounts(sp) IN
      IF Abs(sum - Units(total)) > ExactTolerance
        THEN Throw(MsgExactSum, <<sum, Units(total)>>)
      ELSE Return([k \in 1..Len(sp) |->
                     [user |-> sp[k].userId,
                      amount |-> Val(sp[k].amount),
                      share |-> Val(sp[k].amount)]])

calculateExactSplit(total, sp) ==
    IF Len(sp) = 0 THEN Throw(MsgEmpty, <<>>)
    ELSE IF \E k \in 1..Len(sp) : ExactAmountInvalid(sp[k])
      THEN Throw(MsgExactAmount, <<>>)
    ELSE
      LET sum == SumAmounts(sp) IN
      IF Abs(sum - Units(total)) > ExactTolerance
        THEN Throw(MsgExactSum, <<sum, Units(total)>>)
      ELSE Return([k \in 1..Len(sp) |->
                     [user |-> sp[k].userId,
                      amount |-> Val(sp[k].amount),
                      share |-> Val(sp[k].amount)]])

PercentInvalid(split) ==
    \/ split.amount = Undefined
    \/ Val(split.amount) < 0
    \/ Val(split.amount) > Units(Hundred)

\* Math.floor((totalAmount * percentage) / 100)
PercentShare(total, percentage) ==
    Units(Floor(total * percentage, Hundred * Scale))

\* mutant: the difference goes to the last participant
DistributeDiffToLast(total, cs) ==
    LET calculatedTotal == SumShares(cs)
        diff == Units(total) - calculatedTotal
    IN IF diff > 0 /\ Len(cs) > 0
         THEN [cs EXCEPT ![Len(cs)].share = @ + diff]
         ELSE cs

\* if (diff > 0 && calculatedSplits.length > 0) calculatedSplits[0].share += diff
DistributeDiff(total, cs) ==
    LET calculatedTotal == SumShares(cs)
        diff == Units(total) - calculatedTotal
    IN IF diff > 0 /\ Len(cs) > 0
         THEN [cs EXCEPT ![1].share = @ + diff]
         ELSE cs

calculatePercentageSplit(total, sp) ==
    IF Len(sp) = 0 THEN Throw(MsgEmpty, <<>>)
    ELSE IF \E k \in 1..Len(sp) : PercentInvalid(sp[k])
      THEN Throw(MsgPercentRange, <<>>)
    ELSE
      LET totalPercentage == SumAmounts(sp) IN
      IF Abs(totalPercentage - Units(Hundred)) > PercentTolerance
        THEN Throw(MsgPercentSum, <<totalPercentage>>)
      ELSE
        LET calculatedSplits ==
              [k \in 1..Len(sp) |->
                 [user |-> sp[k].userId,
                  amount |-> Val(sp[k].amount),
                  share |-> PercentShare(total, Val(sp[k].amount))]]
        IN Return(DistributeDiff(total, calculatedSplits))

calculateSplits(total, type, sp) ==
    CASE type = "EQUAL" -> calculateEqualSplit(total, sp)
      [] type = "EXACT" -> calculateExactSplit(total, sp)
      [] type = "PERCENTAGE" -> calculatePercentageSplit(total, sp)
      [] OTHER -> Throw(MsgSplitType, <<type>>)

----------------------------------------------------------------------------
(* Inputs of the split calculator *)

SplitTypes == {"EQUAL", "EXACT", "PERCENTAGE", "UNKNOWN"}

\* positive integer totals: remainders 0, 1, 2 for up to 3 participants,
\* and two large enough for a 0.005% excess to reach one and two whole units
TotalAmounts == {1, 3, 100, 20000, 40000}

\* undefined, -0.005, 0, 0.5, 1, 2, 33.33, 33.34, 49.995, 50, 50.005, 100, 100.005
AmountValues ==
    {Undefined} \cup
    { Some(v) : v \in {-1, 0, Scale \div 2, Units(1), Units(2),
                       Units(33) + 66, Units(33) + 68,
                       Units(50) - 1, Units(50), Units(50) + 1,
                       Units(100), Units(100) + 1} }

\* participants are identified by their position in the request
SplitInputs(n) ==
    { [k \in 1..n |-> [userId |-> k, amount |-> a[k]]] :
         a \in [1..n -> AmountValues] }

AllSplitInputs == UNION { SplitInputs(n) : n \in 0..MaxParticipants }

NoResult == [kind |-> "none", splits |-> <<>>, message |-> "", args |-> <<>>]

SplitInit ==
    /\ totalAmount \in TotalAmounts
    /\ splitType \in SplitTypes
    /\ splits \in AllSplitInputs
    /\ result = NoResult
    /\ pc = "call"

SplitIdle ==
    /\ totalAmount = 1
    /\ splitType = "EQUAL"
    /\ splits = <<>>
    /\ result = NoResult
    /\ pc = "idle"

\* one call of calculateSplits(totalAmount, splitType, splits)
CalculateSplits ==
    /\ pc = "call"
    /\ result' = calculateSplits(totalAmount, splitType, splits)
    /\ pc' = "done"
    /\ UNCHANGED <<totalAmount, splitType, splits>>
    /\ UNCHANGED <<balanceVars, simplifyVars, workflowVars, ledgerVars, memberVars>>

----------------------------------------------------------------------------
(* Balance simplification: calculateNetBalances *)

Users == {"A", "B", "C"}

\* whole currency units
ObligationAmounts == {Units(1), Units(2)}

\* { fromUser, toUser, amount }: fromUser owes toUser amount
Obligations ==
    [fromUser : Users, toUser : Users, amount : ObligationAmounts]

AllBalances ==
    UNION { [1..n -> Obligations] : n \in 0..MaxObligations }

\* the Map<string, NetBalance> as its entries in insertion order
Keys(m) == { m[k].userId : k \in 1..Len(m) }
Has(m, id) == id \in Keys(m)
IndexOf(m, id) == CHOOSE k \in 1..Len(m) : m[k].userId = id
Get(m, id) == m[IndexOf(m, id)]

\* mutant: the entry is set to 0 without asking netBalances.has(id)
TouchAlwaysSets(m, id) ==
    IF Has(m, id) THEN [m EXCEPT ![IndexOf(m, id)].balance = 0]
    ELSE Append(m, [userId |-> id, balance |-> 0])

\* if (!netBalances.has(id)) netBalances.set(id, { ..., balance: 0 })
Touch(m, id) ==
    IF Has(m, id) THEN m ELSE Append(m, [userId |-> id, balance |-> 0])

\* mutant: the balance is assigned, not added to
AddBalanceAssigns(m, id, delta) ==
    [m EXCEPT ![IndexOf(m, id)].balance = delta]

\* netBalances.get(id)!.balance += delta
AddBalance(m, id, delta) ==
    [m EXCEPT ![IndexOf(m, id)].balance = @ + delta]

\* mutant: the creditor is debited too
NetBalanceBodyDebitsBoth(m, balance) ==
    LET m1 == AddBalance(Touch(m, balance.fromUser), balance.fromUser, -balance.amount)
    IN AddBalance(Touch(m1, balance.toUser), balance.toUser, -balance.amount)

\* body of `for (const balance of balances)`
NetBalanceBody(m, balance) ==
    LET m1 == AddBalance(Touch(m, balance.fromUser), balance.fromUser, -balance.amount)
    IN AddBalance(Touch(m1, balance.toUser), balance.toUser, balance.amount)

\* calculateNetBalances(list) as a whole: the loop run from an empty map
RECURSIVE FoldNetBalances(_, _)
FoldNetBalances(m, list) ==
    IF list = <<>> THEN m
    ELSE FoldNetBalances(NetBalanceBody(m, Head(list)), Tail(list))

calculateNetBalances(list) == FoldNetBalances(<<>>, list)

BalanceInit ==
    /\ balances \in AllBalances
    /\ netBalances = <<>>
    /\ idx = 1
    /\ pcB = "loop"

BalanceIdle ==
    /\ balances = <<>>
    /\ netBalances = <<>>
    /\ idx = 1
    /\ pcB = "idle"

\* one iteration of the loop of calculateNetBalances
NetBalanceStep ==
    /\ pcB = "loop"
    /\ idx <= Len(balances)
    /\ netBalances' = NetBalanceBody(netBalances, balances[idx])
    /\ idx' = idx + 1
    /\ UNCHANGED <<balances, pcB>>
    /\ UNCHANGED <<splitVars, simplifyVars, workflowVars, ledgerVars, memberVars>>

\* return netBalances
NetBalanceReturn ==
    /\ pcB = "loop"
    /\ idx > Len(balances)
    /\ pcB' = "done"
    /\ UNCHANGED <<balances, netBalances, idx>>
    /\ UNCHANGED <<splitVars, simplifyVars, workflowVars, ledgerVars, memberVars>>


----------------------------------------------------------------------------
(* Balance simplification: simplifySettlements *)

\* mutant: an epsilon of 0.005
EpsilonHalved == Scale \div 200

\* mutant: an epsilon of one currency unit
EpsilonUnit == Units(1)

\* the 0.01 of `balance > 0.01`, `amount > 0.01`, `balance < 0.01`
Epsilon == Scale \div 100

\* Math.round: the nearest integer, halves upwards
Round(x) == Units((x + (Scale \div 2)) \div Scale)

Min(a, b) == IF a < b THEN a ELSE b

\* the entries of s that satisfy Keep, in the order of s
RECURSIVE SelectEntries(_, _)
SelectEntries(s, keep) ==
    IF s = <<>> THEN <<>>
    ELSE IF Head(s).userId \in keep
           THEN <<Head(s)>> \o SelectEntries(Tail(s), keep)
           ELSE SelectEntries(Tail(s), keep)

\* if (balance.balance > 0.01) creditors.push({ ...balance })
CreditorsOf(m) ==
    SelectEntries(m, { m[k].userId : k \in { l \in 1..Len(m) : m[l].balance > Epsilon } })

\* else if (balance.balance < -0.01) debtors.push({ ...balance })
DebtorsOf(m) ==
    SelectEntries(m, { m[k].userId : k \in { l \in 1..Len(m) : m[l].balance < -Epsilon } })

\* mutant: equal keys come out in reverse order
SortByKeyTiesReversed(s, keys) ==
    LET rank(k) == Cardinality({ l \in 1..Len(s) :
                       \/ keys[l] < keys[k]
                       \/ keys[l] = keys[k] /\ l > k }) + 1
    IN [p \in 1..Len(s) |-> s[CHOOSE k \in 1..Len(s) : rank(k) = p]]

\* Array.prototype.sort with comparator key(a) - key(b), keys[k] being the
\* key of s[k]: ascending in key, stable (equal keys keep their order)
SortByKey(s, keys) ==
    LET rank(k) == Cardinality({ l \in 1..Len(s) :
                       \/ keys[l] < keys[k]
                       \/ keys[l] = keys[k] /\ l < k }) + 1
    IN [p \in 1..Len(s) |-> s[CHOOSE k \in 1..Len(s) : rank(k) = p]]

\* creditors.sort((a, b) => b.balance - a.balance)
CreditorKey(e) == -e.balance
\* debtors.sort((a, b) => a.balance - b.balance)
DebtorKey(e) == e.balance

SortCreditors(s) == SortByKey(s, [k \in 1..Len(s) |-> CreditorKey(s[k])])
SortDebtors(s) == SortByKey(s, [k \in 1..Len(s) |-> DebtorKey(s[k])])

\* mutant: the larger of the two is settled
SettleAmountMax(creditor, debtor) ==
    IF creditor.balance > Abs(debtor.balance)
      THEN creditor.balance ELSE Abs(debtor.balance)

\* mutant: half of the smaller balance is settled
SettleAmountHalved(creditor, debtor) ==
    Min(creditor.balance, Abs(debtor.balance)) \div 2

\* const amount = Math.min(creditor.balance, Math.abs(debtor.balance))
SettleAmount(creditor, debtor) ==
    Min(creditor.balance, Abs(debtor.balance))

\* settlements.push({ from: debtor, to: creditor, amount: Math.round(amount) })
Emit(list, creditor, debtor, amount) ==
    IF amount > Epsilon
      THEN Append(list, [from |-> debtor.userId,
                         to |-> creditor.userId,
                         amount |-> Round(amount)])
      ELSE list

\* mutant: only a creditor below zero counts as settled
CreditorSettledBelowZero(balance) == balance < 0

\* if (creditor.balance < 0.01) i++
CreditorSettled(balance) == balance < Epsilon

\* if (debtor.balance > -0.01) j++
DebtorSettled(balance) == balance > -Epsilon

\* mutant: creditors.push(balance) without the spread: the array entry is
\* the map's own object and the assignment reaches the map
StoreInAlias(m, id, balance) ==
    [m EXCEPT ![IndexOf(m, id)].balance = balance]

\* creditors.push({ ...balance }): the array entry is a copy, so
\* `creditor.balance -= amount` leaves the map's entry as it is
StoreInCopy(m, id, balance) == m

\* lines 87-105: partition, sort, i = 0, j = 0
\* (i and j are 1-based here)
SimplifyStart ==
    /\ pcS = "start"
    /\ creditors' = SortCreditors(CreditorsOf(netBalances))
    /\ debtors' = SortDebtors(DebtorsOf(netBalances))
    /\ i' = 1
    /\ j' = 1
    /\ settlements' = <<>>
    /\ pcS' = "loop"
    /\ UNCHANGED <<splitVars, balanceVars, workflowVars, ledgerVars, memberVars>>

\* one iteration of `while (i < creditors.length && j < debtors.length)`
SimplifyStep ==
    /\ pcS = "loop"
    /\ i <= Len(creditors) /\ j <= Len(debtors)
    /\ LET creditor == creditors[i]
           debtor == debtors[j]
           amount == SettleAmount(creditor, debtor)
           creditorBalance == creditor.balance - amount
           debtorBalance == debtor.balance + amount
       IN /\ settlements' = Emit(settlements, creditor, debtor, amount)
          /\ creditors' = [creditors EXCEPT ![i].balance = creditorBalance]
          /\ debtors' = [debtors EXCEPT ![j].balance = debtorBalance]
          /\ netBalances' =
               StoreInCopy(StoreInCopy(netBalances, creditor.userId, creditorBalance),
                           debtor.userId, debtorBalance)
          /\ i' = IF CreditorSettled(creditorBalance) THEN i + 1 ELSE i
          /\ j' = IF DebtorSettled(debtorBalance) THEN j + 1 ELSE j
    /\ pcS' = "loop"
    /\ UNCHANGED <<balances, idx, pcB>>
    /\ UNCHANGED <<splitVars, workflowVars, ledgerVars, memberVars>>

\* the loop of lines 107-135 run to its end on local arrays cs and ds
RECURSIVE Sweep(_, _, _, _, _)
Sweep(cs, ds, ci, dj, out) ==
    IF ~(ci <= Len(cs) /\ dj <= Len(ds)) THEN out
    ELSE LET creditor == cs[ci]
             debtor == ds[dj]
             amount == SettleAmount(creditor, debtor)
             creditorBalance == creditor.balance - amount
             debtorBalance == debtor.balance + amount
         IN Sweep([cs EXCEPT ![ci].balance = creditorBalance],
                  [ds EXCEPT ![dj].balance = debtorBalance],
                  IF CreditorSettled(creditorBalance) THEN ci + 1 ELSE ci,
                  IF DebtorSettled(debtorBalance) THEN dj + 1 ELSE dj,
                  Emit(out, creditor, debtor, amount))

\* simplifySettlements(m) as a whole
simplifySettlements(m) ==
    Sweep(SortCreditors(CreditorsOf(m)), SortDebtors(DebtorsOf(m)), 1, 1, <<>>)

\* return settlements
SimplifyReturn ==
    /\ pcS = "loop"
    /\ ~(i <= Len(creditors) /\ j <= Len(debtors))
    /\ pcS' = "done"
    /\ UNCHANGED <<creditors, debtors, i, j, settlements>>
    /\ UNCHANGED <<splitVars, balanceVars, workflowVars, ledgerVars, memberVars>>

\* getSimplifiedSettlements: return simplifySettlements(netBalances)
CallSimplify ==
    /\ pcB = "done"
    /\ pcS = "wait"
    /\ pcS' = "start"
    /\ UNCHANGED <<creditors, debtors, i, j, settlements>>
    /\ UNCHANGED <<splitVars, balanceVars, workflowVars, ledgerVars, memberVars>>

SimplifyIdle ==
    /\ creditors = <<>>
    /\ debtors = <<>>
    /\ i = 1
    /\ j = 1
    /\ settlements = <<>>
    /\ pcS = "idle"

(* Inputs of simplifySettlements called on its own *)

MaxParties == 5
MaxFractionalParties == 3

Parties == <<"A", "B", "C", "D", "E", "F">>

\* -3 .. 3 currency units
IntegerBalances == { Units(k) : k \in -3..3 }

\* 0, and +-0.01, +-0.015, +-1, +-1.5, +-3
FractionalBalances ==
    {0} \cup
    { sgn * v : sgn \in {-1, 1},
                v \in {Scale \div 100, (Scale \div 100) + 1, Units(1),
                       Units(1) + (Scale \div 2), Units(3)} }

NetBalanceMaps(n, values) ==
    { [k \in 1..n |-> [userId |-> Parties[k], balance |-> b[k]]] :
         b \in [1..n -> values] }

SimplifyInit ==
    /\ balances = <<>>
    /\ idx = 1
    /\ pcB = "idle"
    /\ \/ \E n \in 0..MaxParties :
              netBalances \in NetBalanceMaps(n, IntegerBalances)
       \/ \E n \in 0..MaxFractionalParties :
              netBalances \in NetBalanceMaps(n, FractionalBalances)
    /\ creditors = <<>>
    /\ debtors = <<>>
    /\ i = 1
    /\ j = 1
    /\ settlements = <<>>
    /\ pcS = "start"

\* simplifySettlements entered with a small map of whole and fractional
\* balances
SimplifyMixedInit ==
    /\ balances = <<>>
    /\ idx = 1
    /\ pcB = "idle"
    /\ \E n \in 0..MaxFractionalParties :
          netBalances \in NetBalanceMaps(n, IntegerBalances \cup FractionalBalances)
    /\ creditors = <<>>
    /\ debtors = <<>>
    /\ i = 1
    /\ j = 1
    /\ settlements = <<>>
    /\ pcS = "start"

\* getSimplifiedSettlements(balances)
GetSimplifiedInit ==
    /\ BalanceInit
    /\ creditors = <<>>
    /\ debtors = <<>>
    /\ i = 1
    /\ j = 1
    /\ settlements = <<>>
    /\ pcS = "wait"

----------------------------------------------------------------------------
(* Settlement controller: confirmSettlement, rejectSettlement *)

MaxRequests == 2

\* the one stored settlement and an id that matches no document
SettlementId == "s1"
UnknownId == "s0"

NoDoc == [fromUser |-> "", toUser |-> "", status |-> "", confirmedAt |-> 0]

\* Settlement.create({ fromUser, toUser, amount, ... }): status defaults to
\* PENDING, confirmedAt is unset (0), fromUser differs from toUser
CreatedSettlements ==
    { [fromUser |-> p[1], toUser |-> p[2], status |-> "PENDING", confirmedAt |-> 0] :
         p \in { q \in Users \X Users : q[1] # q[2] } }

WorkflowInit ==
    /\ settlement \in CreatedSettlements
    /\ requests = <<>>

WorkflowIdle ==
    /\ settlement = NoDoc
    /\ requests = <<>>

\* PATCH /api/settlements/:id/confirm or /reject arrives for req.user
Request(kind, user, id) ==
    /\ Len(requests) < MaxRequests
    /\ requests' = Append(requests,
                          [kind |-> kind, user |-> user, id |-> id,
                           pc |-> "find", doc |-> NoDoc, code |-> 0])
    /\ UNCHANGED settlement
    /\ UNCHANGED <<splitVars, balanceVars, simplifyVars, ledgerVars, memberVars>>

\* const settlement = await Settlement.findById(id);
\* if (!settlement) throw new AppError('Settlement not found', 404)
FindById(r) ==
    /\ requests[r].pc = "find"
    /\ requests' =
         IF requests[r].id = SettlementId
           THEN [requests EXCEPT ![r].doc = settlement, ![r].pc = "loaded"]
           ELSE [requests EXCEPT ![r].code = 404, ![r].pc = "done"]
    /\ UNCHANGED settlement
    /\ UNCHANGED <<splitVars, balanceVars, simplifyVars, ledgerVars, memberVars>>

\* the checks on the loaded document: 403 unless req.user is the receiver,
\* 400 unless the loaded status is PENDING, otherwise 0 (go on)
GuardCode(req) ==
    IF req.doc.toUser # req.user THEN 403
    ELSE IF req.doc.status # "PENDING" THEN 400
    ELSE 0

\* confirmSettlement after findById: checks, then
\* settlement.status = 'CONFIRMED'; settlement.confirmedAt = new Date();
\* await settlement.save()  (the changed fields are written to the store)
ConfirmFinish(r) ==
    /\ requests[r].pc = "loaded"
    /\ requests[r].kind = "confirm"
    /\ IF GuardCode(requests[r]) # 0
         THEN /\ requests' = [requests EXCEPT ![r].code = GuardCode(requests[r]),
                                              ![r].pc = "done"]
              /\ UNCHANGED settlement
         ELSE /\ settlement' = [settlement EXCEPT !.status = "CONFIRMED",
                                                  !.confirmedAt = r]
              /\ requests' = [requests EXCEPT ![r].code = 200, ![r].pc = "done"]
    /\ UNCHANGED <<splitVars, balanceVars, simplifyVars, ledgerVars, memberVars>>

\* rejectSettlement after findById: checks, then
\* settlement.status = 'REJECTED'; await settlement.save()
RejectFinish(r) ==
    /\ requests[r].pc = "loaded"
    /\ requests[r].kind = "reject"
    /\ IF GuardCode(requests[r]) # 0
         THEN /\ requests' = [requests EXCEPT ![r].code = GuardCode(requests[r]),
                                              ![r].pc = "done"]
              /\ UNCHANGED settlement
         ELSE /\ settlement' = [settlement EXCEPT !.status = "REJECTED"]
              /\ requests' = [requests EXCEPT ![r].code = 200, ![r].pc = "done"]
    /\ UNCHANGED <<splitVars, balanceVars, simplifyVars, ledgerVars, memberVars>>

----------------------------------------------------------------------------
(* Balance service: getSettlementSuggestions, getUserBalances *)

MaxRecords == 2

\* the users in the order in which an expense lists its splits
UserOrder == <<"A", "B", "C">>

ShareValues == {Units(1), Units(2)}

\* settlement amounts pass isFloat({ min: 1 }): 1 and 1.5
PaymentValues == {Units(1), Units(1) + (Scale \div 2)}

Statuses == {"PENDING", "CONFIRMED", "REJECTED"}

\* the splits of an expense in which user u has share f[u] (0: no split)
SplitsOf(f) ==
    LET present == { n \in 1..Len(UserOrder) : f[UserOrder[n]] # 0 }
        nth(p) == CHOOSE n \in present :
                     Cardinality({ l \in present : l < n }) = p - 1
    IN [p \in 1..Cardinality(present) |->
           [user |-> UserOrder[nth(p)], share |-> f[UserOrder[nth(p)]]]]

\* stored expenses: a payer and at least one split; the payer's own split,
\* if any, has share 1
ExpenseValues ==
    { [paidBy |-> q[1], splits |-> SplitsOf(q[2])] :
        q \in { r \in Users \X [Users -> {0} \cup ShareValues] :
                  /\ r[2][r[1]] \in {0, Units(1)}
                  /\ \E u \in Users : r[2][u] # 0 } }

\* stored settlements of the group (fromUser differs from toUser)
SettlementValues ==
    { [fromUser |-> q[1], toUser |-> q[2], amount |-> a, status |-> st] :
        q \in { r \in Users \X Users : r[1] # r[2] },
        a \in PaymentValues, st \in Statuses }

\* for (const split of expense.splits)
\*     if (!payer._id.equals(splitUser._id)) balanceRecords.push(...)
RECURSIVE SplitRecords(_, _)
SplitRecords(payer, ss) ==
    IF ss = <<>> THEN <<>>
    ELSE (IF Head(ss).user # payer
            THEN <<[fromUser |-> Head(ss).user, toUser |-> payer,
                    amount |-> Head(ss).share]>>
            ELSE <<>>) \o SplitRecords(payer, Tail(ss))

\* for (const expense of expenses)
RECURSIVE ExpenseRecords(_)
ExpenseRecords(es) ==
    IF es = <<>> THEN <<>>
    ELSE SplitRecords(Head(es).paidBy, Head(es).splits) \o ExpenseRecords(Tail(es))

\* mutant: a settlement enters the list in its own direction
SettlementRecordsForward(ss) ==
    [n \in 1..Len(ss) |->
       [fromUser |-> ss[n].fromUser, toUser |-> ss[n].toUser,
        amount |-> ss[n].amount]]

\* for (const settlement of settlements): pushed reversed, whatever the status
SettlementRecords(ss) ==
    [n \in 1..Len(ss) |->
       [fromUser |-> ss[n].toUser, toUser |-> ss[n].fromUser,
        amount |-> ss[n].amount]]

BalanceRecords(es, ss) == ExpenseRecords(es) \o SettlementRecords(ss)

\* getSimplifiedSettlements(balances)
getSimplifiedSettlements(list) == simplifySettlements(calculateNetBalances(list))

\* getSettlementSuggestions(groupId) on the group's expenses and settlements
getSettlementSuggestions(es, ss) == getSimplifiedSettlements(BalanceRecords(es, ss))

(* getUserBalances(userId, groupId) *)

\* const balanceMap = new Map(): an amount per other user, 0 when absent
EmptyBalanceMap == [u \in Users |-> 0]

\* the 0.01 of `if (Math.abs(data.amount) < 0.01) continue`
Cent == Scale \div 100

\* Math.round(x * 100) / 100
RoundToCents(x) == Cent * ((x + (Cent \div 2)) \div Cent)

\* for (const split of expense.splits): I paid, they owe me / they paid,
\* I owe them
RECURSIVE SplitAmounts(_, _, _, _)
SplitAmounts(m, user, payer, ss) ==
    IF ss = <<>> THEN m
    ELSE LET splitUser == Head(ss).user
             m1 == IF payer = user /\ splitUser # user
                     THEN [m EXCEPT ![splitUser] = @ + Head(ss).share]
                   ELSE IF splitUser = user /\ payer # user
                     THEN [m EXCEPT ![payer] = @ - Head(ss).share]
                   ELSE m
         IN SplitAmounts(m1, user, payer, Tail(ss))

\* Expense.find({ $or: [{ paidBy }, { 'splits.user' }] })
Concerns(expense, user) ==
    \/ expense.paidBy = user
    \/ \E n \in 1..Len(expense.splits) : expense.splits[n].user = user

\* for (const expense of expenses)
RECURSIVE ExpenseAmounts(_, _, _)
ExpenseAmounts(m, user, es) ==
    IF es = <<>> THEN m
    ELSE ExpenseAmounts(
           IF Concerns(Head(es), user)
             THEN SplitAmounts(m, user, Head(es).paidBy, Head(es).splits)
             ELSE m,
           user, Tail(es))

\* for (const settlement of settlements): I paid someone / someone paid me
RECURSIVE SettlementAmounts(_, _, _)
SettlementAmounts(m, user, ss) ==
    IF ss = <<>> THEN m
    ELSE LET fromId == Head(ss).fromUser
             toId == Head(ss).toUser
             m1 == IF fromId = user
                     THEN [m EXCEPT ![toId] = @ + Head(ss).amount]
                   ELSE IF toId = user
                     THEN [m EXCEPT ![fromId] = @ - Head(ss).amount]
                   ELSE m
         IN SettlementAmounts(m1, user, Tail(ss))

\* the totals and the net balance of the returned summary
getUserBalances(user, es, ss) ==
    LET m == SettlementAmounts(ExpenseAmounts(EmptyBalanceMap, user, es), user, ss)
        amountOf(n) == m[UserOrder[n]]
        totalOwed == SumSeq([n \in 1..Len(UserOrder) |->
                       IF ~(Abs(amountOf(n)) < Cent) /\ amountOf(n) > 0
                         THEN amountOf(n) ELSE 0])
        totalOwing == SumSeq([n \in 1..Len(UserOrder) |->
                        IF ~(Abs(amountOf(n)) < Cent) /\ ~(amountOf(n) > 0)
                          THEN Abs(amountOf(n)) ELSE 0])
    IN [totalOwed |-> RoundToCents(totalOwed),
        totalOwing |-> RoundToCents(totalOwing),
        netBalance |-> RoundToCents(totalOwed - totalOwing)]

(* A group's ledger: a user's balances are asked for, or suggestions are
   asked for, every suggested settlement is recorded, and suggestions are
   asked for again *)

NoSummary == [user |-> "", totalOwed |-> 0, totalOwing |-> 0, netBalance |-> 0]

LedgerInit ==
    /\ \E ne \in 0..MaxRecords : \E ns \in 0..(MaxRecords - ne) :
          /\ expenses \in [1..ne -> ExpenseValues]
          /\ recorded \in [1..ns -> SettlementValues]
    /\ suggested = <<>>
    /\ cursor = 1
    /\ summary = NoSummary
    /\ pcL = "open"

LedgerIdle ==
    /\ expenses = <<>>
    /\ recorded = <<>>
    /\ suggested = <<>>
    /\ cursor = 1
    /\ summary = NoSummary
    /\ pcL = "idle"

\* getBalances of the user controller: getUserBalances(req.user, groupId)
GetUserBalances(user) ==
    /\ pcL = "open"
    /\ LET s == getUserBalances(user, expenses, recorded)
       IN summary' = [user |-> user, totalOwed |-> s.totalOwed,
                      totalOwing |-> s.totalOwing, netBalance |-> s.netBalance]
    /\ pcL' = "balances"
    /\ UNCHANGED <<expenses, recorded, suggested, cursor>>
    /\ UNCHANGED <<splitVars, balanceVars, simplifyVars, workflowVars, memberVars>>

\* GET /api/groups/:id/settlements: getSettlementSuggestions(groupId)
GetSuggestions ==
    /\ pcL = "open"
    /\ suggested' = getSettlementSuggestions(expenses, recorded)
    /\ cursor' = 1
    /\ pcL' = "recording"
    /\ UNCHANGED <<expenses, recorded, summary>>
    /\ UNCHANGED <<splitVars, balanceVars, simplifyVars, workflowVars, memberVars>>

\* createSettlement with the payer, receiver and amount of the next
\* suggestion: Settlement.create, status PENDING (amount >= 1 is validated)
RecordSuggested ==
    /\ pcL = "recording"
    /\ cursor <= Len(suggested)
    /\ suggested[cursor].amount >= Units(1)
    /\ recorded' = Append(recorded,
                          [fromUser |-> suggested[cursor].from,
                           toUser |-> suggested[cursor].to,
                           amount |-> suggested[cursor].amount,
                           status |-> "PENDING"])
    /\ cursor' = cursor + 1
    /\ UNCHANGED <<expenses, suggested, summary, pcL>>
    /\ UNCHANGED <<splitVars, balanceVars, simplifyVars, workflowVars, memberVars>>

\* getSettlementSuggestions(groupId) once every suggestion is recorded
GetSuggestionsAgain ==
    /\ pcL = "recording"
    /\ cursor > Len(suggested)
    /\ suggested' = getSettlementSuggestions(expenses, recorded)
    /\ pcL' = "done"
    /\ UNCHANGED <<expenses, recorded, cursor, summary>>
    /\ UNCHANGED <<splitVars, balanceVars, simplifyVars, workflowVars, memberVars>>

----------------------------------------------------------------------------
(* Group controller: createGroup, addMember, removeMember on one group.
   save() sends the changes of the loaded document: an array push is sent
   as $push and only increments the version key, an assigned array is sent
   as $set together with a check of the version key (mongoose). *)

\* an id that belongs to no user
UnknownUser == "Z"

MaxMemberIds == 2

\* req.body.memberIds
MemberIdLists == UNION { [1..n -> Users \cup {UnknownUser}] : n \in 0..MaxMemberIds }

NoGroup == [exists |-> FALSE, members |-> <<>>, createdBy |-> "", version |-> 0]

Range(list) == { list[n] : n \in 1..Len(list) }

RECURSIVE Without(_, _)
Without(list, id) ==
    IF list = <<>> THEN <<>>
    ELSE IF Head(list) = id THEN Without(Tail(list), id)
    ELSE <<Head(list)>> \o Without(Tail(list), id)

\* groupSchema.pre('save'): the creator is pushed when missing
EnsureCreator(members, creator) ==
    IF creator \in Range(members) THEN members ELSE Append(members, creator)

MemberInit ==
    /\ group = NoGroup
    /\ calls = <<>>

MemberIdle ==
    /\ group = NoGroup
    /\ calls = <<>>

\* createGroup: User.find({ _id: { $in: memberIds } }) must return as many
\* users as there are ids; then Group.create with the creator first
CreateGroup(userId, memberIds) ==
    /\ ~group.exists
    /\ LET validMembers == Range(memberIds) \cap Users
       IN IF Len(memberIds) > 0 /\ Cardinality(validMembers) # Len(memberIds)
            THEN group' = group
            ELSE group' = [exists |-> TRUE,
                           members |-> EnsureCreator(
                               <<userId>> \o Without(memberIds, userId), userId),
                           createdBy |-> userId,
                           version |-> 0]
    /\ UNCHANGED calls
    /\ UNCHANGED <<splitVars, balanceVars, simplifyVars, workflowVars, ledgerVars>>

\* POST or DELETE /api/groups/:id/members arrives for req.user
MemberCall(kind, user, target) ==
    /\ Len(calls) < MaxRequests
    /\ calls' = Append(calls, [kind |-> kind, user |-> user, target |-> target,
                               pc |-> "find", doc |-> NoGroup, code |-> 0])
    /\ UNCHANGED group
    /\ UNCHANGED <<splitVars, balanceVars, simplifyVars, workflowVars, ledgerVars>>

\* const group = await Group.findById(groupId); if (!group) 404
FindGroup(c) ==
    /\ calls[c].pc = "find"
    /\ calls' = IF group.exists
                  THEN [calls EXCEPT ![c].doc = group, ![c].pc = "loaded"]
                  ELSE [calls EXCEPT ![c].code = 404, ![c].pc = "done"]
    /\ UNCHANGED group
    /\ UNCHANGED <<splitVars, balanceVars, simplifyVars, workflowVars, ledgerVars>>

\* the checks of addMember on the loaded document
AddGuardCode(call) ==
    IF call.user \notin Range(call.doc.members) THEN 403
    ELSE IF call.target \notin Users THEN 404
    ELSE IF call.target \in Range(call.doc.members) THEN 400
    ELSE 0

\* addMember after findById: checks, group.members.push(userId),
\* await group.save()
AddMemberFinish(c) ==
    /\ calls[c].pc = "loaded"
    /\ calls[c].kind = "add"
    /\ IF AddGuardCode(calls[c]) # 0
         THEN /\ calls' = [calls EXCEPT ![c].code = AddGuardCode(calls[c]),
                                        ![c].pc = "done"]
              /\ UNCHANGED group
         ELSE /\ group' = [group EXCEPT !.members = Append(@, calls[c].target),
                                        !.version = @ + 1]
              /\ calls' = [calls EXCEPT ![c].code = 200, ![c].pc = "done"]
    /\ UNCHANGED <<splitVars, balanceVars, simplifyVars, workflowVars, ledgerVars>>

\* the checks of removeMember on the loaded document
RemoveGuardCode(call) ==
    IF call.doc.createdBy # call.user THEN 403
    ELSE IF call.doc.createdBy = call.target THEN 400
    ELSE 0

\* removeMember after findById: checks,
\* group.members = group.members.filter(...), await group.save()
\* (nothing is sent when the filter removed nothing; a version that has
\* moved since findById makes save() fail, answered 500)
RemoveMemberFinish(c) ==
    /\ calls[c].pc = "loaded"
    /\ calls[c].kind = "remove"
    /\ LET filtered == Without(calls[c].doc.members, calls[c].target)
       IN IF RemoveGuardCode(calls[c]) # 0
            THEN /\ calls' = [calls EXCEPT ![c].code = RemoveGuardCode(calls[c]),
                                           ![c].pc = "done"]
                 /\ UNCHANGED group
          ELSE IF filtered = calls[c].doc.members
            THEN /\ calls' = [calls EXCEPT ![c].code = 200, ![c].pc = "done"]
                 /\ UNCHANGED group
          ELSE IF group.version # calls[c].doc.version
            THEN /\ calls' = [calls EXCEPT ![c].code = 500, ![c].pc = "done"]
                 /\ UNCHANGED group
          ELSE /\ group' = [group EXCEPT
                              !.members = EnsureCreator(filtered, calls[c].doc.createdBy),
                              !.version = @ + 1]
               /\ calls' = [calls EXCEPT ![c].code = 200, ![c].pc = "done"]
    /\ UNCHANGED <<splitVars, balanceVars, simplifyVars, workflowVars, ledgerVars>>

----------------------------------------------------------------------------
(* Specifications *)

SplitSpecInit == SplitInit /\ BalanceIdle /\ SimplifyIdle /\ WorkflowIdle /\ LedgerIdle /\ MemberIdle
SplitNext == CalculateSplits
SplitSpec == SplitSpecInit /\ [][SplitNext]_vars

BalanceSpecInit == SplitIdle /\ BalanceInit /\ SimplifyIdle /\ WorkflowIdle /\ LedgerIdle /\ MemberIdle
BalanceNext == NetBalanceStep \/ NetBalanceReturn
BalanceSpec == BalanceSpecInit /\ [][BalanceNext]_vars

\* simplifySettlements called with a net-balance map
SimplifySpecInit == SplitIdle /\ SimplifyInit /\ WorkflowIdle /\ LedgerIdle /\ MemberIdle
SimplifyNext == SimplifyStart \/ SimplifyStep \/ SimplifyReturn
SimplifySpec == SimplifySpecInit /\ [][SimplifyNext]_vars

\* the call is synchronous code: once entered it keeps running
SimplifyFairSpecInit == SplitIdle /\ SimplifyMixedInit /\ WorkflowIdle /\ LedgerIdle /\ MemberIdle
SimplifyFairSpec ==
    SimplifyFairSpecInit /\ [][SimplifyNext]_vars /\ WF_vars(SimplifyNext)

\* either pure function called on its own
FrameSpecInit == SplitSpecInit \/ SimplifySpecInit
FrameNext == CalculateSplits \/ SimplifyStart \/ SimplifyStep \/ SimplifyReturn
FrameSpec == FrameSpecInit /\ [][FrameNext]_vars

\* getSimplifiedSettlements called with a list of obligations
GetSimplifiedSpecInit == SplitIdle /\ GetSimplifiedInit /\ WorkflowIdle /\ LedgerIdle /\ MemberIdle
GetSimplifiedNext ==
    \/ NetBalanceStep
    \/ NetBalanceReturn
    \/ CallSimplify
    \/ SimplifyStart
    \/ SimplifyStep
    \/ SimplifyReturn
GetSimplifiedSpec == GetSimplifiedSpecInit /\ [][GetSimplifiedNext]_vars

\* confirm and reject requests on one stored settlement
WorkflowSpecInit == SplitIdle /\ BalanceIdle /\ SimplifyIdle /\ WorkflowInit /\ LedgerIdle /\ MemberIdle
WorkflowNext ==
    \/ \E kind \in {"confirm", "reject"}, user \in Users,
          id \in {SettlementId, UnknownId} : Request(kind, user, id)
    \/ \E r \in 1..Len(requests) : FindById(r)
    \/ \E r \in 1..Len(requests) : ConfirmFinish(r)
    \/ \E r \in 1..Len(requests) : RejectFinish(r)
WorkflowSpec == WorkflowSpecInit /\ [][WorkflowNext]_vars

\* one group's expenses and settlements, suggestions asked and recorded
LedgerSpecInit ==
    SplitIdle /\ BalanceIdle /\ SimplifyIdle /\ WorkflowIdle /\ LedgerInit /\ MemberIdle
LedgerNext ==
    \/ \E user \in Users : GetUserBalances(user)
    \/ GetSuggestions
    \/ RecordSuggested
    \/ GetSuggestionsAgain
LedgerSpec == LedgerSpecInit /\ [][LedgerNext]_vars

\* requests on the membership of one group
MemberSpecInit ==
    SplitIdle /\ BalanceIdle /\ SimplifyIdle /\ WorkflowIdle /\ LedgerIdle /\ MemberInit
MemberNext ==
    \/ \E userId \in Users, memberIds \in MemberIdLists : CreateGroup(userId, memberIds)
    \/ \E kind \in {"add", "remove"}, user \in Users,
          target \in Users \cup {UnknownUser} : MemberCall(kind, user, target)
    \/ \E c \in 1..Len(calls) : FindGroup(c)
    \/ \E c \in 1..Len(calls) : AddMemberFinish(c)
    \/ \E c \in 1..Len(calls) : RemoveMemberFinish(c)
MemberSpec == MemberSpecInit /\ [][MemberNext]_vars

----------------------------------------------------------------------------
(* Properties of calculateSplits *)

Called(type) == pc = "done" /\ splitType = type
Returned == result.kind = "return"
Threw(msg) == result.kind = "throw" /\ result.message = msg /\ result.splits = <<>>

NumSplits == Len(splits)
Shares == [k \in 1..Len(result.splits) |-> result.splits[k].share]

\* every input carries a non-negative amount
AllAmountsNonNegative ==
    \A k \in 1..NumSplits :
        splits[k].amount # Undefined /\ Val(splits[k].amount) >= 0

\* every input carries a percentage in [0,100]
AllPercentagesInRange ==
    \A k \in 1..NumSplits :
        /\ splits[k].amount # Undefined
        /\ Val(splits[k].amount) >= 0
        /\ Val(splits[k].amount) <= Units(100)

\* C1: an EQUAL split of a positive integer totalAmount among a non-empty
\* participant list returns shares whose sum is exactly totalAmount.
C1_EqualSumExact ==
    (Called("EQUAL") /\ NumSplits >= 1) =>
        /\ Returned
        /\ Len(result.splits) = NumSplits
        /\ SumSeq(Shares) = Units(totalAmount)

\* 100 among 3 participants: a remainder is handed out
C1_Witness ==
    /\ Called("EQUAL") /\ NumSplits = 3 /\ totalAmount = 100
    /\ Returned
    /\ SumSeq(Shares) = Units(100)

\* C2: an EQUAL split gives floor(totalAmount/n)+1 to exactly the first
\* (totalAmount mod n) participants in input order and floor(totalAmount/n)
\* to the others, so the largest and smallest share differ by at most 1,
\* and every result's amount field equals its share.
C2_EqualShape ==
    (Called("EQUAL") /\ NumSplits >= 1) =>
        /\ Returned
        /\ Len(result.splits) = NumSplits
        /\ \A k \in 1..NumSplits :
             /\ result.splits[k].user = splits[k].userId
             /\ result.splits[k].amount = result.splits[k].share
             /\ k <= totalAmount % NumSplits =>
                  result.splits[k].share = Units((totalAmount \div NumSplits) + 1)
             /\ k > totalAmount % NumSplits =>
                  result.splits[k].share = Units(totalAmount \div NumSplits)
        /\ \A k, l \in 1..NumSplits :
             result.splits[k].share - result.splits[l].share <= Units(1)

\* 20000 among 3 participants: the first two get 6667, the last 6666
C2_Witness ==
    /\ Called("EQUAL") /\ NumSplits = 3 /\ totalAmount = 20000
    /\ Returned
    /\ Shares = <<Units(6667), Units(6667), Units(6666)>>

\* C3: a PERCENTAGE split that passes validation returns shares whose sum
\* is exactly totalAmount.
C3_PercentSumExact ==
    (Called("PERCENTAGE") /\ Returned) =>
        SumSeq(Shares) = Units(totalAmount)

\* C4: an EXACT split with non-negative amounts whose sum is within 1 of
\* totalAmount succeeds with share = amount = input amount in input order;
\* the sum of the shares is totalAmount when the amounts sum to it and
\* differs from it by 1 otherwise.
C4_ExactSharesAreInputs ==
    (Called("EXACT") /\ NumSplits >= 1 /\ AllAmountsNonNegative
       /\ Abs(SumAmounts(splits) - Units(totalAmount)) <= Units(1)) =>
        /\ Returned
        /\ Len(result.splits) = NumSplits
        /\ \A k \in 1..NumSplits :
             /\ result.splits[k].user = splits[k].userId
             /\ result.splits[k].share = Val(splits[k].amount)
             /\ result.splits[k].amount = Val(splits[k].amount)
        /\ SumAmounts(splits) = Units(totalAmount) =>
             SumSeq(Shares) = Units(totalAmount)
        /\ SumAmounts(splits) # Units(totalAmount) =>
             Abs(SumSeq(Shares) - Units(totalAmount)) = Units(1)

\* C5: an EXACT split whose valid amounts sum to a value more than 1 away
\* from totalAmount throws the sum-mismatch error, which reports the sum
\* and totalAmount, and returns no splits.
C5_ExactSumMismatch ==
    (Called("EXACT") /\ NumSplits >= 1 /\ AllAmountsNonNegative
       /\ Abs(SumAmounts(splits) - Units(totalAmount)) > Units(1)) =>
        /\ Threw(MsgExactSum)
        /\ result.args = <<SumAmounts(splits), Units(totalAmount)>>

\* amounts 2 and 0.5 against a total of 1: 1.5 apart
C5_Witness ==
    /\ Called("EXACT") /\ totalAmount = 1 /\ NumSplits = 2
    /\ splits[1].amount = Some(Units(2)) /\ splits[2].amount = Some(Scale \div 2)
    /\ Threw(MsgExactSum)
    /\ result.args = <<Units(2) + (Scale \div 2), Units(1)>>

\* C6: with an empty participant list each of EQUAL, EXACT and PERCENTAGE
\* throws the at-least-one-participant error, ahead of its other checks.
C6_EmptyFails ==
    (pc = "done" /\ splitType \in {"EQUAL", "EXACT", "PERCENTAGE"}
       /\ NumSplits = 0) =>
        Threw(MsgEmpty)

\* EXACT with no inputs and total 1: the sum check alone would accept
C6_Witness ==
    /\ Called("EXACT") /\ NumSplits = 0 /\ totalAmount = 1
    /\ Threw(MsgEmpty)

\* C7: an input without amount or with a negative amount under EXACT, or
\* without amount or with an amount outside [0,100] under PERCENTAGE, makes
\* the call throw the invalid-amount error, whatever the amounts sum to.
C7_InvalidAmountFails ==
    /\ (Called("EXACT")
          /\ \E k \in 1..NumSplits :
               \/ splits[k].amount = Undefined
               \/ Val(splits[k].amount) < 0) =>
         Threw(MsgExactAmount)
    /\ (Called("PERCENTAGE")
          /\ \E k \in 1..NumSplits :
               \/ splits[k].amount = Undefined
               \/ Val(splits[k].amount) < 0
               \/ Val(splits[k].amount) > Units(100)) =>
         Threw(MsgPercentRange)

\* EXACT 1 and -0.005 against a total of 1: the sum is within the slack
C7_Witness ==
    /\ Called("EXACT") /\ totalAmount = 1 /\ NumSplits = 2
    /\ splits[1].amount = Some(Units(1)) /\ splits[2].amount = Some(-1)
    /\ Abs(SumAmounts(splits) - Units(totalAmount)) <= Units(1)
    /\ Threw(MsgExactAmount)

C9_SharesAreNonNegativeIntegers ==
    (pc = "done" /\ Returned) =>
        \A k \in 1..Len(result.splits) :
            /\ result.splits[k].share >= 0
            /\ IsInteger(result.splits[k].share)

----------------------------------------------------------------------------
(* Properties of calculateNetBalances *)

Participants ==
    { balances[k].fromUser : k \in 1..Len(balances) } \cup
    { balances[k].toUser : k \in 1..Len(balances) }

Credit(u) ==
    SumSeq([k \in 1..Len(balances) |->
              IF balances[k].toUser = u THEN balances[k].amount ELSE 0])

Debit(u) ==
    SumSeq([k \in 1..Len(balances) |->
              IF balances[k].fromUser = u THEN balances[k].amount ELSE 0])

BalanceByKey(m) == [u \in Keys(m) |-> Get(m, u).balance]

Perms(n) == { f \in [1..n -> 1..n] : \A a, b \in 1..n : a # b => f[a] # f[b] }

Permuted(list, f) == [k \in 1..Len(list) |-> list[f[k]]]

\* C11: calculateNetBalances is order-independent: the map computed from any
\* permutation of the obligation list has the same keys and the same
\* balance for every key.
C11_OrderIndependent ==
    pcB = "done" =>
        \A f \in Perms(Len(balances)) :
            BalanceByKey(calculateNetBalances(Permuted(balances, f))) =
                BalanceByKey(netBalances)

\* three obligations, one party on both sides, and a permutation that
\* changes the insertion order of the map but not its balances
C11_Witness ==
    /\ pcB = "done"
    /\ Len(balances) = 3
    /\ \E k, l \in 1..3 : balances[k].fromUser = balances[l].toUser
    /\ \E f \in Perms(3) :
         /\ calculateNetBalances(Permuted(balances, f)) # netBalances
         /\ BalanceByKey(calculateNetBalances(Permuted(balances, f))) =
                BalanceByKey(netBalances)

----------------------------------------------------------------------------
(* Properties of simplifySettlements *)

SumSettled == SumSeq([k \in 1..Len(settlements) |-> settlements[k].amount])

SumPositive(m) ==
    SumSeq([k \in 1..Len(m) |-> IF m[k].balance > 0 THEN m[k].balance ELSE 0])

SumNegative(m) ==
    SumSeq([k \in 1..Len(m) |-> IF m[k].balance < 0 THEN -m[k].balance ELSE 0])

SumBalances(m) == SumSeq([k \in 1..Len(m) |-> m[k].balance])

AllIntegerBalances(m) == \A k \in 1..Len(m) : IsInteger(m[k].balance)

\* C12 as stated: for every net-balance map given to simplifySettlements the
\* amounts of the emitted settlements sum to the sum of the positive
\* balances of the map.
C12_SettledEqualsPositive ==
    pcS = "done" => SumSettled = SumPositive(netBalances)

\* C12 restricted to the maps on which rounding changes nothing: for every
\* net-balance map whose balances are whole numbers of currency units that
\* sum to zero, the amounts of the emitted settlements sum to the sum of the
\* positive balances, which is the sum of the absolute values of the
\* negative balances.
C12_SettledEqualsPositiveIfBalanced ==
    (pcS = "done" /\ AllIntegerBalances(netBalances)
       /\ SumBalances(netBalances) = 0) =>
        /\ SumSettled = SumPositive(netBalances)
        /\ SumSettled = SumNegative(netBalances)

\* 2, 2, 1, -3, -2: four settlements that sum to 5
C12_Witness ==
    /\ pcS = "done"
    /\ Len(netBalances) = 5
    /\ [k \in 1..5 |-> netBalances[k].balance] =
           <<Units(2), Units(2), Units(1), -Units(3), -Units(2)>>
    /\ Len(settlements) = 4
    /\ SumSettled = Units(5)

----------------------------------------------------------------------------
(* Properties of getSimplifiedSettlements *)

Paid(u) ==
    SumSeq([k \in 1..Len(settlements) |->
              IF settlements[k].from = u THEN settlements[k].amount ELSE 0])

Received(u) ==
    SumSeq([k \in 1..Len(settlements) |->
              IF settlements[k].to = u THEN settlements[k].amount ELSE 0])

\* C13: for an obligation list with positive integer amounts, paying every
\* settlement returned by getSimplifiedSettlements (the payer's net balance
\* goes up, the receiver's down, by the amount) leaves every participant
\* with a net balance of exactly zero.
C13_SettlementsClearDebts ==
    (pcS = "done" /\ pcB = "done") =>
        \A k \in 1..Len(netBalances) :
            netBalances[k].balance + Paid(netBalances[k].userId)
                - Received(netBalances[k].userId) = 0

\* three obligations among three parties that need two payments
C13_Witness ==
    /\ pcS = "done" /\ pcB = "done"
    /\ Len(balances) = 3
    /\ Len(netBalances) = 3
    /\ Len(settlements) = 2
    /\ \E k \in 1..3 : Abs(netBalances[k].balance) = Units(3)
    /\ \A k \in 1..3 :
         netBalances[k].balance + Paid(netBalances[k].userId)
             - Received(netBalances[k].userId) = 0

----------------------------------------------------------------------------
(* The fewest payments that clear an integer map summing to zero.
   Payments that clear every balance link the parties into groups whose
   balances sum to zero; a group of g parties needs at least g - 1 payments
   and a chain of g - 1 payments clears it.  So the fewest payments are the
   number of non-zero parties minus the largest number of disjoint zero-sum
   groups they can be split into. *)

NonZero(m) == { k \in 1..Len(m) : m[k].balance # 0 }

GroupSum(m, T) ==
    SumSeq([k \in 1..Len(m) |-> IF k \in T THEN m[k].balance ELSE 0])

MaxOf(S) == CHOOSE v \in S : \A w \in S : w <= v

RECURSIVE MaxZeroSumGroups(_, _)
MaxZeroSumGroups(m, S) ==
    IF S = {} THEN 0
    ELSE LET a == CHOOSE x \in S : \A y \in S : x <= y
             groups == { T \in SUBSET S : a \in T /\ GroupSum(m, T) = 0 }
         IN MaxOf({ 1 + MaxZeroSumGroups(m, S \ T) : T \in groups })

MinPayments(m) ==
    Cardinality(NonZero(m)) - MaxZeroSumGroups(m, NonZero(m))

\* C14: for a net-balance map whose integer balances sum to zero, the list
\* returned by simplifySettlements has minimum cardinality: no set of
\* payments that clears every balance has fewer payments.
C14_MinimumCardinality ==
    (pcS = "done" /\ AllIntegerBalances(netBalances)
       /\ SumBalances(netBalances) = 0) =>
        Len(settlements) <= MinPayments(netBalances)

----------------------------------------------------------------------------
InSettlement(u) ==
    \E k \in 1..Len(settlements) :
        settlements[k].from = u \/ settlements[k].to = u

\* C15: a participant whose net balance is within 0.01 of zero is never the
\* payer or the receiver of a settlement of simplifySettlements; a map
\* whose balances are all zero yields the empty list.
C15_SettledPartiesStayOut ==
    /\ \A k \in 1..Len(netBalances) :
         Abs(netBalances[k].balance) <= Scale \div 100 =>
             ~InSettlement(netBalances[k].userId)
    /\ (pcS = "done" /\ \A k \in 1..Len(netBalances) : netBalances[k].balance = 0)
         => settlements = <<>>

\* a party at +0.01 next to a creditor and a debtor that are matched
C15_Witness ==
    /\ pcS = "done"
    /\ Len(netBalances) = 3
    /\ netBalances[1].balance = Scale \div 100
    /\ Len(settlements) = 1
    /\ InSettlement(netBalances[2].userId)
    /\ InSettlement(netBalances[3].userId)
    /\ ~InSettlement(netBalances[1].userId)

----------------------------------------------------------------------------
(* Properties of confirmSettlement and rejectSettlement *)

\* request r answers in this step
Answers(r) == requests[r].pc # "done" /\ requests'[r].pc = "done"

StatusOf(kind) == IF kind = "confirm" THEN "CONFIRMED" ELSE "REJECTED"

\* C16: the status of a settlement changes only through a confirm or reject
\* request of its receiver while the status is PENDING, to CONFIRMED or to
\* REJECTED; a request of another user, or on a settlement that is not
\* PENDING, is answered with 403 or 400 and leaves status and confirmedAt
\* as they are.
C16_Step ==
    /\ settlement' # settlement =>
         /\ settlement.status = "PENDING"
         /\ \E r \in 1..Len(requests) :
              /\ Answers(r)
              /\ requests[r].user = settlement.toUser
              /\ requests'[r].code = 200
              /\ settlement'.status = StatusOf(requests[r].kind)
    /\ \A r \in 1..Len(requests) :
         (Answers(r) /\ requests[r].id = SettlementId) =>
            /\ requests[r].user # settlement.toUser =>
                 requests'[r].code = 403 /\ settlement' = settlement
            /\ (requests[r].user = settlement.toUser
                  /\ settlement.status # "PENDING") =>
                 requests'[r].code = 400 /\ settlement' = settlement

C16_StatusOnlyByReceiverWhilePending == [][C16_Step]_vars

----------------------------------------------------------------------------
FlooredShare(k) ==
    Units((totalAmount * Val(splits[k].amount)) \div (100 * Scale))

FlooredDiff ==
    Units(totalAmount) - SumSeq([k \in 1..NumSplits |-> FlooredShare(k)])

\* C17: in a successful PERCENTAGE split every participant but the first
\* gets floor(totalAmount * percentage / 100); the first gets that floor
\* plus diff = totalAmount - sum of the floors when diff > 0 and nothing
\* extra otherwise; every amount field holds the input percentage.
C17_PercentShape ==
    (Called("PERCENTAGE") /\ Returned) =>
        /\ Len(result.splits) = NumSplits
        /\ \A k \in 1..NumSplits :
             /\ result.splits[k].user = splits[k].userId
             /\ result.splits[k].amount = Val(splits[k].amount)
             /\ k > 1 => result.splits[k].share = FlooredShare(k)
             /\ k = 1 => result.splits[k].share =
                  FlooredShare(1) + (IF FlooredDiff > 0 THEN FlooredDiff ELSE 0)

\* 100 split 33.33 / 33.33 / 33.34: floors 33, 33, 33 and the first gets 34
C17_Witness ==
    /\ Called("PERCENTAGE") /\ Returned
    /\ totalAmount = 100
    /\ [k \in 1..NumSplits |-> splits[k].amount] =
           <<Some(Units(33) + 66), Some(Units(33) + 66), Some(Units(33) + 68)>>
    /\ FlooredDiff = Units(1)
    /\ Shares = <<Units(34), Units(33), Units(33)>>

----------------------------------------------------------------------------
\* an iteration of the sweep is taken in this step
SweepStep ==
    /\ pcS = "loop" /\ pcS' = "loop"
    /\ i <= Len(creditors) /\ j <= Len(debtors)

\* C18: at every step of the sweep the creditor being settled has the
\* largest remaining balance of the creditors not yet settled, the debtor
\* being settled has the largest remaining debt of the debtors not yet
\* settled, and the amount settled is min(creditor balance, |debtor balance|).
C18_Step ==
    SweepStep =>
        /\ \A k \in i..Len(creditors) :
             creditors[i].balance >= creditors[k].balance
        /\ \A l \in j..Len(debtors) :
             Abs(debtors[j].balance) >= Abs(debtors[l].balance)
        /\ LET amount == IF creditors[i].balance < Abs(debtors[j].balance)
                           THEN creditors[i].balance
                           ELSE Abs(debtors[j].balance)
           IN /\ creditors'[i].balance = creditors[i].balance - amount
              /\ debtors'[j].balance = debtors[j].balance + amount

C18_SweepTakesLargest == [][C18_Step]_vars

----------------------------------------------------------------------------
\* where u is first met when the obligation list is read front to back,
\* fromUser before toUser within one obligation
Encounters(u) ==
    { 2 * k - 1 : k \in { l \in 1..Len(balances) : balances[l].fromUser = u } }
    \cup { 2 * k : k \in { l \in 1..Len(balances) : balances[l].toUser = u } }

FirstEncounter(u) ==
    CHOOSE p \in Encounters(u) : \A q \in Encounters(u) : p <= q

Sorted == pcB = "done" /\ pcS \in {"loop", "done"}

\* a and b have the same net balance and a is met before b
TiedInOrder(a, b) ==
    (a # b /\ Get(netBalances, a).balance = Get(netBalances, b).balance)
        => FirstEncounter(a) < FirstEncounter(b)

\* C19: creditors (debtors) of equal net balance are matched in the order
\* in which they were first encountered in the obligation list: they keep
\* that order in the sorted arrays and in the settlements; obligations
\* A owes B 2, B owes C 1 give exactly [A pays B 1, A pays C 1].
C19_TiesInEncounterOrder ==
    Sorted =>
        /\ \A p, q \in 1..Len(creditors) :
             p < q => TiedInOrder(creditors[p].userId, creditors[q].userId)
        /\ \A p, q \in 1..Len(debtors) :
             p < q => TiedInOrder(debtors[p].userId, debtors[q].userId)
        /\ \A p, q \in 1..Len(settlements) :
             p < q => /\ TiedInOrder(settlements[p].to, settlements[q].to)
                      /\ TiedInOrder(settlements[p].from, settlements[q].from)
        /\ (/\ pcS = "done"
            /\ balances = <<[fromUser |-> "A", toUser |-> "B", amount |-> Units(2)],
                            [fromUser |-> "B", toUser |-> "C", amount |-> Units(1)]>>)
             => settlements = <<[from |-> "A", to |-> "B", amount |-> Units(1)],
                                [from |-> "A", to |-> "C", amount |-> Units(1)]>>

C19_Witness ==
    /\ pcS = "done" /\ pcB = "done"
    /\ balances = <<[fromUser |-> "A", toUser |-> "B", amount |-> Units(2)],
                    [fromUser |-> "B", toUser |-> "C", amount |-> Units(1)]>>
    /\ Get(netBalances, "B").balance = Get(netBalances, "C").balance
    /\ Len(settlements) = 2
    /\ settlements[1].to = "B" /\ settlements[2].to = "C"

----------------------------------------------------------------------------
BalanceOf(u) == Get(netBalances, u).balance

\* every settlement goes from a party in debt to a party in credit
PayerOwesReceiverIsOwed ==
    \A k \in 1..Len(settlements) :
        /\ Has(netBalances, settlements[k].from)
        /\ Has(netBalances, settlements[k].to)
        /\ BalanceOf(settlements[k].from) < 0
        /\ BalanceOf(settlements[k].to) > 0

\* no party pays in one settlement and receives in another
NoPayerReceives ==
    \A k, l \in 1..Len(settlements) : settlements[k].from # settlements[l].to

AmountsPositive ==
    \A k \in 1..Len(settlements) : settlements[k].amount > 0

\* nobody pays more than it owes or receives more than it is owed
WithinBalances ==
    \A k \in 1..Len(netBalances) :
        LET u == netBalances[k].userId
        IN /\ BalanceOf(u) < 0 => Paid(u) <= -BalanceOf(u)
           /\ BalanceOf(u) > 0 => Received(u) <= BalanceOf(u)

\* C20: for every net-balance map every emitted settlement has a party with
\* negative balance as payer, a party with positive balance as receiver and
\* a positive amount; no party is payer in one settlement and receiver in
\* another; no party pays more than the absolute value of its negative
\* balance or receives more than its positive balance.
C20_SettlementsWithinBalances ==
    pcS \in {"loop", "done"} =>
        /\ PayerOwesReceiverIsOwed
        /\ NoPayerReceives
        /\ AmountsPositive
        /\ WithinBalances

----------------------------------------------------------------------------
\* an iteration moves each pointer by at most one and at least one of them
C21_Step ==
    SweepStep =>
        /\ i' \in {i, i + 1}
        /\ j' \in {j, j + 1}
        /\ i' > i \/ j' > j
        /\ Len(creditors') = Len(creditors)
        /\ Len(debtors') = Len(debtors)

\* the loop runs exactly while neither list is exhausted
C21_Bounded ==
    /\ i \in 1..(Len(creditors) + 1)
    /\ j \in 1..(Len(debtors) + 1)
    /\ (pcS = "done" /\ (creditors # <<>> \/ debtors # <<>>)) =>
          i = Len(creditors) + 1 \/ j = Len(debtors) + 1

\* C21: simplifySettlements terminates for every net-balance map: every
\* iteration advances the creditor pointer, the debtor pointer or both, so
\* there are at most #creditors + #debtors iterations, and the loop stops
\* as soon as either list is exhausted.
C21_Terminates ==
    /\ [][C21_Step]_vars
    /\ []C21_Bounded
    /\ <>(pcS = "done")

\* one creditor and two debtors: the first iteration advances the debtor
\* pointer only, the second cancels the pair and both pointers leave their
\* lists together
C21_Witness ==
    /\ pcS = "done"
    /\ Len(creditors) = 1 /\ Len(debtors) = 2
    /\ i = 2 /\ j = 3
    /\ Len(settlements) = 2

----------------------------------------------------------------------------
C22_Step ==
    /\ netBalances' = netBalances
    /\ splits' = splits

\* C22: simplifySettlements does not modify the net-balance map it is
\* given, so a second call on the same map returns the same settlements as
\* the first; calculateSplits leaves its input list unchanged.
C22_InputsUnchanged ==
    /\ [][C22_Step]_vars
    /\ [](pcS = "done" => settlements = simplifySettlements(netBalances))

\* the local copy of a creditor of 3 has been settled down to 0 while the
\* map still says 3
C22_Witness ==
    /\ pcS = "done"
    /\ Len(settlements) >= 2
    /\ \E k \in 1..Len(creditors) :
         /\ creditors[k].balance = 0
         /\ Get(netBalances, creditors[k].userId).balance = Units(3)

----------------------------------------------------------------------------
\* C23: for a group whose expenses have positive integer shares, once every
\* settlement suggested by getSettlementSuggestions is recorded as a group
\* settlement with the same payer, receiver and amount,
\* getSettlementSuggestions returns an empty list.
C23_RecordedSuggestionsSettle ==
    pcL = "done" => suggested = <<>>

\* the same for groups whose settlements have whole amounts too
C23_WholeAmounts ==
    (pcL = "done" /\ \A n \in 1..Len(recorded) : IsInteger(recorded[n].amount))
        => suggested = <<>>

----------------------------------------------------------------------------
RECURSIVE ConfirmedOnly(_)
ConfirmedOnly(ss) ==
    IF ss = <<>> THEN <<>>
    ELSE IF Head(ss).status = "CONFIRMED"
      THEN <<Head(ss)>> \o ConfirmedOnly(Tail(ss))
      ELSE ConfirmedOnly(Tail(ss))

\* C28: a settlement reduces the debts used by getSettlementSuggestions only
\* once it is confirmed: with its PENDING and REJECTED settlements the group
\* gets the suggestions it would get without them.
C28_OnlyConfirmedCount ==
    getSettlementSuggestions(expenses, recorded) =
        getSettlementSuggestions(expenses, ConfirmedOnly(recorded))

----------------------------------------------------------------------------
\* the users that appear in the group's expenses or settlements
Appearing ==
    { expenses[n].paidBy : n \in 1..Len(expenses) }
    \cup UNION { { expenses[n].splits[l].user : l \in 1..Len(expenses[n].splits) } :
                  n \in 1..Len(expenses) }
    \cup { recorded[n].fromUser : n \in 1..Len(recorded) }
    \cup { recorded[n].toUser : n \in 1..Len(recorded) }

LedgerNetBalances == calculateNetBalances(BalanceRecords(expenses, recorded))

NetBalanceOf(u) ==
    IF Has(LedgerNetBalances, u) THEN Get(LedgerNetBalances, u).balance ELSE 0

WholeLedger ==
    /\ \A n \in 1..Len(recorded) : IsInteger(recorded[n].amount)
    /\ \A n \in 1..Len(expenses) : \A l \in 1..Len(expenses[n].splits) :
          IsInteger(expenses[n].splits[l].share)

\* C30: with integer shares and settlement amounts, for every user that
\* appears in the group's expenses or settlements the netBalance of
\* getUserBalances(user, group) is the user's balance in calculateNetBalances
\* of the records getSettlementSuggestions builds (zero without an entry).
C30_UserBalanceIsNetBalance ==
    (pcL = "balances" /\ WholeLedger /\ summary.user \in Appearing) =>
        summary.netBalance = NetBalanceOf(summary.user)

\* B owes A 2 for an expense and has paid A 1: B is told that it owes 1
C30_Witness ==
    /\ pcL = "balances"
    /\ WholeLedger
    /\ Len(expenses) = 1 /\ Len(recorded) = 1
    /\ expenses[1].paidBy = "A"
    /\ recorded[1].fromUser = "B" /\ recorded[1].toUser = "A"
    /\ summary.user = "B"
    /\ summary.totalOwing = Units(1)
    /\ summary.netBalance = -Units(1)
    /\ NetBalanceOf("B") = -Units(1)

----------------------------------------------------------------------------
\* C24: for every obligation list the balances of the map returned by
\* calculateNetBalances sum to zero, also when a participant is debtor in
\* one obligation and creditor in another.
C24_BalancesSumToZero ==
    pcB = "done" =>
        SumSeq([n \in 1..Len(netBalances) |-> netBalances[n].balance]) = 0

\* B owes and is owed: three obligations, B's balance is not zero
C24_Witness ==
    /\ pcB = "done"
    /\ Len(balances) = 3
    /\ \E a, b \in 1..Len(balances) :
         /\ balances[a].fromUser = "B" /\ balances[a].toUser = "C"
         /\ balances[b].toUser = "B" /\ balances[b].fromUser = "A"
         /\ balances[a].amount # balances[b].amount
    /\ Len(netBalances) = 3
    /\ \A n \in 1..3 : netBalances[n].balance # 0

----------------------------------------------------------------------------
CreditorCount ==
    Cardinality({ n \in 1..Len(netBalances) : netBalances[n].balance > Scale \div 100 })

DebtorCount ==
    Cardinality({ n \in 1..Len(netBalances) : netBalances[n].balance < -(Scale \div 100) })

\* C25: for a map with c >= 1 creditors and d >= 1 debtors (|balance| >
\* 0.01) simplifySettlements returns at most c + d - 1 settlements and no
\* ordered pair (payer, receiver) is in more than one settlement.
C25_FewSettlementsNoPairTwice ==
    (pcS \in {"loop", "done"} /\ CreditorCount >= 1 /\ DebtorCount >= 1) =>
        /\ Len(settlements) <= CreditorCount + DebtorCount - 1
        /\ \A a, b \in 1..Len(settlements) :
             (settlements[a].from = settlements[b].from
                /\ settlements[a].to = settlements[b].to) => a = b

\* two creditors and two debtors settled with exactly three settlements
C25_Witness ==
    /\ pcS = "done"
    /\ CreditorCount = 2 /\ DebtorCount = 2
    /\ Len(settlements) = 3
    /\ settlements[1].from = settlements[2].from
    /\ settlements[2].to = settlements[3].to

----------------------------------------------------------------------------
\* C26: whenever calculateSplits succeeds for an expense amount the splits
\* pass the Expense pre-save check |sum(share) - amount| <= 1 and every
\* share is >= 0, for all three policies.
C26_SplitsPassPreSave ==
    Returned =>
        /\ Abs(SumShares(result.splits) - Units(totalAmount)) <= Units(1)
        /\ \A n \in 1..Len(result.splits) : result.splits[n].share >= 0

----------------------------------------------------------------------------
C27_Step ==
    /\ settlement.status = "CONFIRMED" => settlement'.status = "CONFIRMED"
    /\ settlement.status = "REJECTED" => settlement'.status = "REJECTED"
    /\ settlement.status # "PENDING" => settlement' = settlement

\* C27: under any interleaving of confirm and reject requests for the same
\* settlement the status is written at most once: a CONFIRMED settlement is
\* never REJECTED afterwards and a REJECTED one never CONFIRMED.
C27_StatusWrittenOnce == [][C27_Step]_vars

----------------------------------------------------------------------------
\* C29: after any createGroup, addMember and removeMember requests the
\* stored group's creator is one of its members and no user is in the
\* member list twice.
C29_CreatorIsMemberNoDuplicates ==
    group.exists =>
        /\ group.createdBy \in Range(group.members)
        /\ \A a, b \in 1..Len(group.members) :
             group.members[a] = group.members[b] => a = b

====
